---- MODULE Spec2Model ----
(***************************************************************************)
(* Model of the two Sentinel-2 clients of sentinel2_downloader:            *)
(*   - SentinelAPI (sentinel.py): query + download with a hand-written     *)
(*     redirect loop;                                                      *)
(*   - ApiClient / Sentinel2Downloader (sentinelv2.py): authorize,         *)
(*     create_url_process, get_products, download_product, execute.        *)
(* A behaviour is the life of one process that uses one of the two         *)
(* clients (variable client); the remote services and the network are the  *)
(* environment and answer every request nondeterministically.              *)
(***************************************************************************)
EXTENDS Integers, Sequences, FiniteSets, TLC

VARIABLES
    client,            \* which class this process drives
    op,                \* the running / last call
    pc,                \* position of the running call
    outcome,           \* how the last finished call ended
    files,             \* the filesystem: path -> bytes of the file
    files_before,      \* the filesystem when the running call started
    gets,              \* GET requests sent by the running / last call
    last_get,          \* arguments of the most recent GET of the call
    printed,           \* lines printed by the running / last call
    \* ---- SentinelAPI ----
    api_token,         \* self.token
    product_name,      \* self.product_name: the stored product list
    criteria,          \* search arguments of the running / last call
    catalog_response,  \* response the catalog gave to this call's search
    result,            \* return value of query / get_products in this call
    product_id,        \* argument / loop variable product_id
    directory_path,    \* argument directory_path
    local_name,        \* download's local product_name
    url,               \* download's local url
    response_download, \* download's local response_download
    terminal,          \* the response that ended the while loop
    hops,              \* iterations of the while loop in this call
    downloaded_size,   \* bytes written to the open file by this call
    total_size,        \* total handed to the progress bar
    progress,          \* progress_bar.n
    \* ---- ApiClient / Sentinel2Downloader ----
    config,            \* fields assigned by set_config
    posts,             \* POSTs sent to the identity endpoint in this run
    token_response,    \* response of the identity endpoint to the last POST
    searches,          \* GETs sent to the catalog endpoint in this run
    token,             \* execute's local token
    product_ids,       \* execute's local product_ids
    idx,               \* next position of the for loop over product_ids
    attempts           \* <<token, product_id>> of every download_product call

vars == <<client, op, pc, outcome, files, files_before, gets, last_get, printed,
          api_token, product_name, criteria, catalog_response, result,
          product_id, directory_path, local_name, url, response_download,
          terminal, hops, downloaded_size, total_size, progress,
          config, posts, token_response, searches, token, product_ids, idx,
          attempts>>

apiVars == <<api_token, product_name>>
callVars == <<product_id, directory_path, local_name, url, response_download,
              terminal, hops, downloaded_size, total_size, progress>>
v2Vars == <<config, posts, token_response, searches, token, product_ids, idx,
           attempts>>

(***************************************************************************)
(* Bounds of the model                                                     *)
(***************************************************************************)
\* longest value array the catalog answers Sentinel2Downloader with
MaxProducts == 6
\* the while loop of download is explored up to this many iterations
HopCap == 11
\* bytes per chunk of iter_content (1024 in the source, scaled down)
BlockSize == 2

(***************************************************************************)
(* Values                                                                  *)
(***************************************************************************)
\* an optional value: Python None / a missing attribute, or a value
Absent == [some |-> FALSE, val |-> <<>>]
Some(v) == [some |-> TRUE, val |-> v]

\* "" is the empty (falsy) argument, "v" any non-empty one
ParamValues == {"", "v"}
CriteriaFields == {"footprint", "start_date", "end_date", "product_type",
                   "cloud_cover_percentage", "platform_name"}
CompleteCriteria == [f \in CriteriaFields |-> "v"]
\* the criteria sets explored: complete, or exactly one field empty
CriteriaChoices ==
    {CompleteCriteria} \cup
    {[CompleteCriteria EXCEPT ![f] = ""] : f \in CriteriaFields}

\* the catalog of SentinelAPI: two products, each listed Online or not
ApiIds == {"p1", "p2"}
NameOf(id) == IF id = "p1" THEN "n1" ELSE "n2"
ApiProducts == {[Id |-> i, Name |-> NameOf(i), Online |-> o] :
                    i \in ApiIds, o \in BOOLEAN}
ApiValues ==
    {<<>>} \cup {<<p>> : p \in ApiProducts} \cup
    {v \in {<<p, q>> : p \in ApiProducts, q \in ApiProducts} : v[1].Id # v[2].Id}
\* product ids a caller may pass to download ("px" is in no catalog answer)
CallIds == ApiIds \cup {"px"}
Dirs == {"d"}

Bodies == {<<1>>, <<2, 3, 4>>}
Locations == {<<"L1">>, <<"L2">>}
NoLocation == <<>>
NoUrl == <<>>

\* a response to a GET; status 0 stands for a request that raised
\* (connection error, too many redirects); clen is the content-length
\* header, -1 when the header is absent
Resp(s, l, b, c) == [status |-> s, Location |-> l, body |-> b, clen |-> c]
NoResponse == Resp(-1, NoLocation, <<>>, -1)
Raised == Resp(0, NoLocation, <<>>, -1)

\* sentinel.py:99
RedirectStatuses == {301, 302, 303, 307}

RedirectResponses ==
    {Resp(s, l, <<>>, -1) : s \in RedirectStatuses,
                            l \in Locations \cup {NoLocation}}
\* a 200 with a body, its content-length header present or absent
OkResponses ==
    {Resp(200, NoLocation, b, c) : b \in Bodies, c \in {-1}} \cup
    {Resp(200, NoLocation, b, Len(b)) : b \in Bodies}
ErrorResponse == Resp(500, NoLocation, <<>>, -1)
\* answers to a GET sent with allow_redirects=False
ManualResponses ==
    RedirectResponses \cup OkResponses \cup {ErrorResponse, Raised}
\* answers to a GET that follows redirects by itself
FollowedResponses == OkResponses \cup {ErrorResponse, Raised}

NoGet == [url |-> NoUrl, allow_redirects |-> FALSE]
Get(u, a) == [url |-> u, allow_redirects |-> a]

EmptyFS == [k \in {} |-> <<>>]
Path(dir, name) == [dir |-> dir, name |-> name]

(***************************************************************************)
(* Filesystem                                                              *)
(***************************************************************************)
\* open(path, 'ab'): an existing file keeps its contents
OpenAB(fs, path) ==
    [k \in DOMAIN fs \cup {path} |->
        IF k = path /\ k \notin DOMAIN fs THEN <<>> ELSE fs[k]]

\* open(path, 'wb'): the file exists and is empty afterwards
OpenWB(fs, path) ==
    [k \in DOMAIN fs \cup {path} |-> IF k = path THEN <<>> ELSE fs[k]]

\* a write that starts again at offset 0 of the file
WriteFromStart(fs, path, data) == [fs EXCEPT ![path] = data]

\* f.write(data) on the file opened at path
Write(fs, path, data) == [fs EXCEPT ![path] = @ \o data]

\* the next chunk iter_content(block_size) yields from what is left
Chunk(rest) == IF Len(rest) <= BlockSize THEN rest ELSE SubSeq(rest, 1, BlockSize)

(***************************************************************************)
(* SentinelAPI (sentinel.py)                                               *)
(***************************************************************************)
\* sentinel.py:9, the default api_url
api_url == <<"Products">>
\* f"{url}({product_id})/$value"
ProductUrl(base, id) == base \o <<id, "$value">>

\* Python truthiness of a str argument
Truthy(x) == x # ""

\* what the catalog may answer to the search GET: status 0 is a request
\* that raised, has_value tells whether the JSON body has a 'value' key
CatResp(s, h, v) == [status |-> s, has_value |-> h, value |-> v]
NoCatalogResponse == CatResp(-1, FALSE, <<>>)
ApiCatalogResponses ==
    {CatResp(200, TRUE, v) : v \in ApiValues} \cup
    {CatResp(500, FALSE, <<>>), CatResp(0, FALSE, <<>>)}

\* the for loop of query reaches its return statement iff some product of
\* the value array has a true Online field
AnyOnline(value) == \E i \in 1..Len(value) : value[i].Online

\* the return value of query for a response that did not raise
QueryReturn(r) ==
    IF r.status = 200 /\ AnyOnline(r.value) THEN Some(r.value) ELSE Absent

\* the assignment to self.product_name placed before the for loop
QueryStoreAlways(stored, r) ==
    IF r.status = 200 THEN Some(r.value) ELSE stored

\* self.product_name after query got response r
QueryStore(stored, r) ==
    IF r.status = 200 /\ AnyOnline(r.value) THEN Some(r.value) ELSE stored

\* [p for p in product_list if p['Id'] == f'{product_id}']
Matches(product_list, id) ==
    SelectSeq(product_list, LAMBDA p : p.Id = id)

\* os.path.join(final_directory, f"{product_name}.zip")
ApiTarget == Path(directory_path, <<local_name>>)

\* the part of the response body iter_content has not yielded yet
Rest == SubSeq(response_download.body, downloaded_size + 1,
               Len(response_download.body))

\* int(response.headers.get('content-length', 0))
TotalSize(r) == IF r.clen = -1 THEN 0 ELSE r.clen

ResetCounters ==
    /\ terminal' = NoResponse
    /\ hops' = 0
    /\ downloaded_size' = 0
    /\ total_size' = 0
    /\ progress' = 0

\* the locals of download and its Session, gone once the call is over
DropLocals ==
    /\ local_name' = ""
    /\ url' = NoUrl
    /\ response_download' = NoResponse
    /\ terminal' = NoResponse
    /\ hops' = 0
    /\ downloaded_size' = 0
    /\ total_size' = 0
    /\ progress' = 0
    /\ gets' = 0
    /\ last_get' = NoGet

\* download ends: exc is the exception it raises, or "returned"
EndDownload(exc) ==
    /\ outcome' = exc
    /\ pc' = "idle"
    /\ DropLocals

\* what the identity endpoint may answer to the token POST: status 0 is a
\* request that raised, has_token tells whether the JSON body has an
\* 'access_token' key
TokResp(s, h, t) == [status |-> s, has_token |-> h, access_token |-> t]
NoTokenResponse == TokResp(-1, FALSE, "")

InitSentinelAPI ==
    /\ client = "SentinelAPI"
    /\ op = "init"
    /\ pc = "idle"
    /\ outcome = "returned"
    /\ files = EmptyFS
    /\ files_before = EmptyFS
    /\ gets = 0
    /\ last_get = NoGet
    /\ printed = <<>>
    /\ api_token \in {Absent, Some("T")}
    /\ product_name = Absent
    /\ criteria = Absent
    /\ catalog_response = NoCatalogResponse
    /\ result = Absent
    /\ product_id = ""
    /\ directory_path = ""
    /\ local_name = ""
    /\ url = NoUrl
    /\ response_download = NoResponse
    /\ terminal = NoResponse
    /\ hops = 0
    /\ downloaded_size = 0
    /\ total_size = 0
    /\ progress = 0
    /\ config = Absent
    /\ posts = 0
    /\ token_response = NoTokenResponse
    /\ searches = 0
    /\ token = Absent
    /\ product_ids = Absent
    /\ idx = 0
    /\ attempts = <<>>

\* SentinelAPI.query(footprint, ..., platform_name) with arguments c
query ==
    /\ client = "SentinelAPI"
    /\ pc = "idle"
    /\ \E c \in CriteriaChoices :
        /\ op' = "query"
        /\ criteria' = Some(c)
        /\ files_before' = files
        /\ printed' = <<>>
        /\ pc' = "idle"
        /\ product_id' = ""
        /\ directory_path' = ""
        /\ DropLocals
        /\ IF \A f \in CriteriaFields : Truthy(c[f])
           THEN \E r \in ApiCatalogResponses :
                /\ catalog_response' = r
                /\ IF r.status = 0
                   THEN /\ outcome' = "ConnectionError"
                        /\ result' = Absent
                        /\ UNCHANGED product_name
                   ELSE /\ outcome' = "returned"
                        /\ result' = QueryReturn(r)
                        /\ product_name' = QueryStore(product_name, r)
           ELSE /\ catalog_response' = NoCatalogResponse
                /\ outcome' = "Exception"
                /\ result' = Absent
                /\ UNCHANGED product_name
    /\ UNCHANGED <<client, files, api_token, v2Vars>>

\* SentinelAPI.download(product_id, directory_path) up to its first GET
download ==
    /\ client = "SentinelAPI"
    /\ pc = "idle"
    /\ \E id \in CallIds, dir \in Dirs :
        /\ op' = "download"
        /\ product_id' = id
        /\ directory_path' = dir
        /\ files_before' = files
        /\ printed' = <<>>
        /\ criteria' = Absent
        /\ catalog_response' = NoCatalogResponse
        /\ result' = Absent
        /\ IF ~api_token.some \/ ~product_name.some
           THEN EndDownload("AttributeError")
           ELSE IF Matches(product_name.val, id) = <<>>
           THEN EndDownload("IndexError")
           ELSE \E r \in ManualResponses :
                IF r = Raised
                THEN EndDownload("RequestException")
                ELSE /\ local_name' = Matches(product_name.val, id)[1].Name
                     /\ url' = api_url
                     /\ gets' = 1
                     /\ last_get' = Get(ProductUrl(api_url, id), FALSE)
                     /\ response_download' = r
                     /\ outcome' = "running"
                     /\ pc' = "while"
                     /\ ResetCounters
    /\ UNCHANGED <<client, files, apiVars, v2Vars>>

\* one iteration of the while loop of download
download_redirect ==
    /\ client = "SentinelAPI"
    /\ pc = "while"
    /\ response_download.status \in RedirectStatuses
    /\ hops < HopCap
    /\ IF response_download.Location = NoLocation
       THEN EndDownload("RequestException")
       ELSE \E r \in ManualResponses :
            IF r = Raised
            THEN EndDownload("RequestException")
            ELSE /\ url' = response_download.Location
                 /\ gets' = gets + 1
                 /\ last_get' = Get(url', FALSE)
                 /\ response_download' = r
                 /\ hops' = hops + 1
                 /\ UNCHANGED <<outcome, pc, local_name, terminal,
                                downloaded_size, total_size, progress>>
    /\ UNCHANGED <<client, op, files, files_before, printed, apiVars, criteria,
                   catalog_response, result, product_id, directory_path,
                   v2Vars>>

\* the GET after the while loop, the status test and the opening of the file
download_fetch ==
    /\ client = "SentinelAPI"
    /\ pc = "while"
    /\ response_download.status \notin RedirectStatuses
    /\ \E r \in FollowedResponses :
        IF r.status = 200
        THEN /\ terminal' = response_download
             /\ gets' = gets + 1
             /\ last_get' = Get(url, TRUE)
             /\ response_download' = r
             /\ files' = OpenWB(files, ApiTarget)
             /\ total_size' = TotalSize(r)
             /\ pc' = "stream"
             /\ UNCHANGED <<outcome, local_name, url, hops, downloaded_size,
                            progress>>
        ELSE /\ EndDownload("RequestException")
             /\ UNCHANGED files
    /\ UNCHANGED <<client, op, files_before, printed, apiVars, criteria,
                   catalog_response, result, product_id, directory_path,
                   v2Vars>>

\* one iteration of the for loop over iter_content(block_size)
download_chunk ==
    /\ client = "SentinelAPI"
    /\ pc = "stream"
    /\ Rest # <<>>
    /\ downloaded_size' = downloaded_size + Len(Chunk(Rest))
    /\ files' = Write(files, ApiTarget, Chunk(Rest))
    /\ progress' = progress + Len(Chunk(Rest))
    /\ UNCHANGED <<client, op, pc, outcome, files_before, gets, last_get,
                   printed, apiVars, criteria, catalog_response, result,
                   product_id, directory_path, local_name, url,
                   response_download, terminal, hops, total_size, v2Vars>>

\* the body is exhausted: close the file, print, return
download_complete ==
    /\ client = "SentinelAPI"
    /\ pc = "stream"
    /\ Rest = <<>>
    /\ printed' = Append(printed, "Download complete!")
    /\ EndDownload("returned")
    /\ UNCHANGED <<client, op, files, files_before, apiVars, criteria,
                   catalog_response, result, product_id, directory_path,
                   v2Vars>>

NextSentinelAPI ==
    \/ query
    \/ download
    \/ download_redirect
    \/ download_fetch
    \/ download_chunk
    \/ download_complete

(***************************************************************************)
(* ApiClient and Sentinel2Downloader (sentinelv2.py)                       *)
(***************************************************************************)
ConfigFields == {"start_date", "end_date", "data_collection", "aoi",
                 "cloud_cover_percentage", "product_type"}
CompleteConfig == [f \in ConfigFields \cup {"download_path"} |->
                     IF f = "download_path" THEN "s2" ELSE "v"]
\* the configurations explored: complete, or one search field empty
ConfigChoices ==
    {CompleteConfig} \cup {[CompleteConfig EXCEPT ![f] = ""] : f \in ConfigFields}

Tokens == {"T1", "T2"}
TokenResponses ==
    {TokResp(200, TRUE, t) : t \in Tokens} \cup
    {TokResp(200, FALSE, ""), TokResp(401, FALSE, ""), TokResp(0, FALSE, "")}

\* r.raise_for_status() raises, or the request itself raised
RaisesForStatus(status) == status = 0 \/ (status >= 400 /\ status < 600)

\* value arrays the catalog answers Sentinel2Downloader with: n products
\* by ascending or by descending id
Asc(n) == [i \in 1..n |-> [Id |-> i]]
Desc(n) == [i \in 1..n |-> [Id |-> n + 1 - i]]
V2Values == {Asc(n) : n \in 0..MaxProducts} \cup {Desc(n) : n \in 0..MaxProducts}
V2CatalogResponses ==
    {CatResp(200, TRUE, v) : v \in V2Values} \cup
    {CatResp(500, FALSE, <<>>), CatResp(0, FALSE, <<>>)}

\* sentinelv2.py:135, the argument of head
HeadRows == 5
\* DataFrame.head(n)
DataFrameHead(value, n) ==
    IF Len(value) <= n THEN value ELSE SubSeq(value, 1, n)

\* pd.DataFrame.from_dict(json["value"]).head(5)
GetProducts(value) == DataFrameHead(value, HeadRows)

\* the Id column read from the last row to the first
IdColumnReversed(dt) ==
    IF dt = <<>> THEN Absent
    ELSE Some([i \in 1..Len(dt) |-> dt[Len(dt) + 1 - i].Id])

\* product_data.get("Id"): the column, None when the frame has no such column
IdColumn(dt) ==
    IF dt = <<>> THEN Absent ELSE Some([i \in 1..Len(dt) |-> dt[i].Id])

\* f"{full_path}/product{product_id}.zip"
V2Target(id) == Path(config.val["download_path"], <<"product", id>>)

\* a file an earlier run of the same job left in the download directory
OldBody == <<9, 9, 9, 9>>
OldFS == [k \in {Path("s2", <<"product", 1>>)} |-> OldBody]

InitSentinel2Downloader ==
    /\ client = "Sentinel2Downloader"
    /\ op = "init"
    /\ pc = "idle"
    /\ outcome = "returned"
    /\ files \in {EmptyFS, OldFS}
    /\ files_before = files
    /\ gets = 0
    /\ last_get = NoGet
    /\ printed = <<>>
    /\ api_token = Absent
    /\ product_name = Absent
    /\ criteria = Absent
    /\ catalog_response = NoCatalogResponse
    /\ result = Absent
    /\ product_id = 0
    /\ directory_path = ""
    /\ local_name = ""
    /\ url = NoUrl
    /\ response_download = NoResponse
    /\ terminal = NoResponse
    /\ hops = 0
    /\ downloaded_size = 0
    /\ total_size = 0
    /\ progress = 0
    /\ config = Absent
    /\ posts = 0
    /\ token_response = NoTokenResponse
    /\ searches = 0
    /\ token = Absent
    /\ product_ids = Absent
    /\ idx = 0
    /\ attempts = <<>>

\* Sentinel2Downloader.set_config(...)
set_config ==
    /\ client = "Sentinel2Downloader"
    /\ pc = "idle"
    /\ op \in {"init", "set_config"}
    /\ \E c \in ConfigChoices : config' = Some(c)
    /\ op' = "set_config"
    /\ UNCHANGED <<client, pc, outcome, files, files_before, gets, last_get,
                   printed, apiVars, criteria, catalog_response, result,
                   callVars, posts, token_response, searches, token,
                   product_ids, idx, attempts>>

\* the locals of download_product, gone once the call is over
DropProductLocals ==
    /\ response_download' = NoResponse
    /\ downloaded_size' = 0
    /\ total_size' = 0
    /\ progress' = 0

\* execute ends; msg is what its except clause prints, "" when nothing raised
EndExecute(msg) ==
    /\ printed' = IF msg = "" THEN printed ELSE Append(printed, msg)
    /\ outcome' = "returned"
    /\ pc' = "idle"

\* authorize's failure handled inside the run, which then goes on
AuthorizeFailedContinue(msg) ==
    /\ printed' = Append(printed, msg)
    /\ pc' = "search"
    /\ outcome' = "running"
    /\ UNCHANGED token

\* authorize raised: the exception leaves execute's try block at once
AuthorizeFailed(msg) ==
    /\ EndExecute(msg)
    /\ UNCHANGED token

\* execute from its start through client.authorize()
execute ==
    /\ client = "Sentinel2Downloader"
    /\ pc = "idle"
    /\ op \in {"init", "set_config"}
    /\ op' = "execute"
    /\ files_before' = files
    /\ \E a \in TokenResponses :
        /\ posts' = 1
        /\ token_response' = a
        /\ IF RaisesForStatus(a.status)
           THEN AuthorizeFailed("Access token creation failed")
           ELSE IF ~a.has_token
           THEN AuthorizeFailed("KeyError")
           ELSE /\ token' = Some(a.access_token)
                /\ pc' = "search"
                /\ outcome' = "running"
                /\ UNCHANGED printed
    /\ UNCHANGED <<client, files, gets, last_get, apiVars, criteria,
                   catalog_response, result, callVars, config, searches,
                   product_ids, idx, attempts>>

\* execute: create_url_process, get_products, product_data.get("Id")
execute_search ==
    /\ client = "Sentinel2Downloader"
    /\ pc = "search"
    /\ IF ~config.some
       THEN /\ EndExecute("AttributeError")
            /\ UNCHANGED <<criteria, searches, catalog_response, result,
                           product_ids, idx>>
       ELSE /\ criteria' = Some([f \in ConfigFields |-> config.val[f]])
            /\ searches' = searches + 1
            /\ \E r \in V2CatalogResponses :
                /\ catalog_response' = r
                /\ IF r.status = 0
                   THEN /\ EndExecute("ConnectionError")
                        /\ UNCHANGED <<result, product_ids, idx>>
                   ELSE IF ~r.has_value
                   THEN /\ EndExecute("KeyError")
                        /\ UNCHANGED <<result, product_ids, idx>>
                   ELSE /\ result' = Some(GetProducts(r.value))
                        /\ product_ids' = IdColumn(GetProducts(r.value))
                        /\ idx' = 1
                        /\ printed' = Append(printed, "dt")
                        /\ pc' = "for"
                        /\ UNCHANGED outcome
    /\ UNCHANGED <<client, op, files, files_before, gets, last_get, apiVars,
                   callVars, config, posts, token_response, token, attempts>>

\* the for loop of execute calls download_product(token, product_id):
\* its GET, raise_for_status and the opening of the file
download_product ==
    /\ client = "Sentinel2Downloader"
    /\ pc = "for"
    /\ product_ids.some
    /\ idx <= Len(product_ids.val)
    /\ product_id' = product_ids.val[idx]
    /\ attempts' = Append(attempts, <<token.val, product_ids.val[idx]>>)
    /\ \E r \in FollowedResponses :
        IF RaisesForStatus(r.status)
        THEN /\ EndExecute("Failed to download product")
             /\ DropProductLocals
             /\ UNCHANGED files
        ELSE /\ response_download' = r
             /\ total_size' = TotalSize(r)
             /\ files' = OpenWB(files, V2Target(product_ids.val[idx]))
             /\ downloaded_size' = 0
             /\ progress' = 0
             /\ pc' = "stream"
             /\ UNCHANGED <<outcome, printed>>
    /\ UNCHANGED <<client, op, files_before, gets, last_get, apiVars, criteria,
                   catalog_response, result, directory_path, local_name, url,
                   terminal, hops, config, posts, token_response, searches,
                   token, product_ids, idx>>

\* one iteration of the for loop over response.iter_content(chunk_size=1024):
\* the next chunk arrives and is written, or the connection breaks
download_product_chunk ==
    /\ client = "Sentinel2Downloader"
    /\ pc = "stream"
    /\ Rest # <<>>
    /\ \/ /\ files' = Write(files, V2Target(product_id), Chunk(Rest))
          /\ downloaded_size' = downloaded_size + Len(Chunk(Rest))
          /\ progress' = progress + Len(Chunk(Rest))
          /\ UNCHANGED <<pc, outcome, printed, response_download, total_size>>
       \/ /\ EndExecute("Failed to download product")
          /\ DropProductLocals
          /\ UNCHANGED files
    /\ UNCHANGED <<client, op, files_before, gets, last_get, apiVars, criteria,
                   catalog_response, result, product_id, directory_path,
                   local_name, url, terminal, hops, v2Vars>>

\* the body is exhausted: download_product returns, the for loop goes on
download_product_return ==
    /\ client = "Sentinel2Downloader"
    /\ pc = "stream"
    /\ Rest = <<>>
    /\ idx' = idx + 1
    /\ pc' = "for"
    /\ DropProductLocals
    /\ UNCHANGED <<client, op, outcome, files, files_before, gets, last_get,
                   printed, apiVars, criteria, catalog_response, result,
                   product_id, directory_path, local_name, url, terminal,
                   hops, config, posts, token_response, searches, token,
                   product_ids, attempts>>

\* product_ids is None or the for loop is exhausted: execute returns
execute_return ==
    /\ client = "Sentinel2Downloader"
    /\ pc = "for"
    /\ ~product_ids.some \/ idx > Len(product_ids.val)
    /\ EndExecute("")
    /\ UNCHANGED <<client, op, files, files_before, gets, last_get, apiVars,
                   criteria, catalog_response, result, callVars, v2Vars>>

NextSentinel2Downloader ==
    \/ set_config
    \/ execute
    \/ execute_search
    \/ download_product
    \/ download_product_chunk
    \/ download_product_return
    \/ execute_return

Init == InitSentinelAPI \/ InitSentinel2Downloader
Next == NextSentinelAPI \/ NextSentinel2Downloader
Spec == Init /\ [][Next]_vars

(***************************************************************************)
(* Properties                                                              *)
(***************************************************************************)
IsApi == client = "SentinelAPI"
IsV2 == client = "Sentinel2Downloader"

\* the product ids of the download_product calls of the run, in call order
AttemptIds == [j \in 1..Len(attempts) |-> attempts[j][2]]
\* the ids of the value array the catalog answered with, in its order
CatalogIds ==
    [i \in 1..Len(catalog_response.value) |-> catalog_response.value[i].Id]
IsPrefix(a, b) == Len(a) <= Len(b) /\ a = SubSeq(b, 1, Len(a))
\* execute has returned
RunOver == IsV2 /\ op = "execute" /\ pc = "idle"
\* the except clause of execute has printed an exception
RunRaised == \E i \in 1..Len(printed) : printed[i] # "dt"

\* C1: once execute has returned, every product id get_products returned has
\* been handed to download_product, whether or not an earlier download of
\* the run failed.
C1_RemainingDownloadsAttempted ==
    (RunOver /\ product_ids.some) =>
        \A i \in 1..Len(product_ids.val) :
            \E j \in 1..Len(attempts) : attempts[j][2] = product_ids.val[i]

\* the order of the network operations of one run of execute: one POST
\* before the one search, the search before any download, every download
\* with the token of that POST, at most one download running
RunOrder ==
    IsV2 =>
        /\ posts <= 1
        /\ searches <= 1
        /\ searches = 1 => (posts = 1 /\ token.some)
        /\ attempts # <<>> => (searches = 1 /\ catalog_response.has_value)
        /\ token.some => token.val = token_response.access_token
        /\ \A j \in 1..Len(attempts) :
               attempts[j][1] = token_response.access_token
        /\ pc = "stream" => Len(attempts) = idx
        /\ pc = "for" => Len(attempts) = idx - 1

\* C2 as stated: the order above, and a run in which nothing raised has
\* downloaded exactly the product ids the catalog response listed, in the
\* order listed, none skipped, repeated or reordered.
C2_DownloadsFollowCatalog ==
    /\ RunOrder
    /\ (RunOver /\ ~RunRaised /\ catalog_response.has_value) =>
           AttemptIds = CatalogIds

\* C2 amended: the order above; the ids downloaded are at every moment a
\* prefix of the first five ids of the catalog response (none repeated or
\* reordered), and a run in which nothing raised has downloaded exactly
\* those first five.
C2_DownloadsFollowCatalogHead ==
    /\ RunOrder
    /\ (IsV2 /\ catalog_response.has_value) =>
           IsPrefix(AttemptIds, DataFrameHead(CatalogIds, 5))
    /\ (RunOver /\ ~RunRaised /\ catalog_response.has_value) =>
           AttemptIds = DataFrameHead(CatalogIds, 5)

\* a run that downloaded all five products of a six-product, descending
\* catalog answer and returned without an exception
C2_Witness ==
    /\ RunOver
    /\ ~RunRaised
    /\ Len(catalog_response.value) = 6
    /\ AttemptIds = <<6, 5, 4, 3, 2>>

\* C3: on a 200 response with a non-empty value array the search returns
\* every entry of the array, in order, whatever the Online flags and
\* however many entries there are.
C3_SearchReturnsWholeValue ==
    /\ (IsApi /\ op = "query" /\ outcome = "returned"
           /\ catalog_response.status = 200
           /\ catalog_response.value # <<>>) =>
           result = Some(catalog_response.value)
    /\ (IsV2 /\ result.some) => result.val = catalog_response.value

\* C4: when download has tested the status and opened the file, it has sent
\* exactly one GET per response of the redirect chain, every one of them
\* with allow_redirects=False, the last one to the Location of the last
\* redirect (to the product's $value URL when there was no redirect), and
\* the response being written is the first non-redirect response.
C4_OneGetPerResponse ==
    (IsApi /\ pc = "stream") =>
        /\ gets = hops + 1
        /\ ~last_get.allow_redirects
        /\ hops = 0 => last_get.url = ProductUrl(api_url, product_id)
        /\ response_download.body = terminal.body

\* C5: when the redirect chain ended in a 200 with body B (and a
\* content-length header), download ends having written a file equal to B,
\* and the bytes written equal the total given to the progress bar.
C5_FileEqualsBody ==
    (IsApi /\ pc = "stream" /\ Rest = <<>>
        /\ terminal.status = 200 /\ terminal.clen # -1) =>
        /\ files[ApiTarget] = terminal.body
        /\ downloaded_size = Len(terminal.body)
        /\ downloaded_size = total_size

\* C6: the while loop of download never follows more than 10 redirects.
C6_RedirectsBounded ==
    (IsApi /\ pc = "while") => hops <= 10

\* C7: a download whose first non-redirect response is not a 200 opens no
\* file (the filesystem stays as it was when the call started) and never
\* reaches the code that prints the success line.
C7_NoFileOnErrorStatus ==
    /\ (IsApi /\ op = "download" /\ terminal.status \notin {-1, 200}) =>
           (pc # "stream" /\ files = files_before)
    /\ (IsV2 /\ pc = "stream") => response_download.status = 200

\* C8: after a failed token request (failure status or network failure) the
\* run is over after exactly one POST: authorize's error is printed, no
\* search was sent, no download was attempted and no file was written.
C8_AuthFailureEndsRun ==
    (IsV2 /\ op = "execute" /\ token_response.status \in {0, 401}) =>
        /\ posts = 1
        /\ pc = "idle"
        /\ printed = <<"Access token creation failed">>
        /\ searches = 0
        /\ catalog_response = NoCatalogResponse
        /\ attempts = <<>>
        /\ files = files_before

\* a configured downloader whose token request was answered 401
C8_Witness ==
    /\ RunOver
    /\ config = Some(CompleteConfig)
    /\ token_response.status = 401

\* C9: a search with an empty criteria field sends no catalog request and
\* ends with an error, in SentinelAPI.query and in the
\* create_url_process / get_products pair alike.
C9_IncompleteCriteriaSendNothing ==
    (criteria.some /\ \E f \in DOMAIN criteria.val : criteria.val[f] = "") =>
        /\ catalog_response = NoCatalogResponse
        /\ IsApi => outcome = "Exception"

\* C10: when a download has written the whole body of its response, the
\* target file holds exactly that body, whatever the file held before the
\* call; the call touched no other path, so the product has one file.
C10_DownloadOverwrites ==
    /\ (IsApi /\ pc = "stream") =>
           /\ DOMAIN files = DOMAIN files_before \cup {ApiTarget}
           /\ \A k \in DOMAIN files_before :
                  k # ApiTarget => files[k] = files_before[k]
           /\ Rest = <<>> => files[ApiTarget] = response_download.body
    /\ (IsV2 /\ pc = "stream") =>
           /\ DOMAIN files \subseteq DOMAIN files_before \cup
                  {V2Target(AttemptIds[j]) : j \in 1..Len(attempts)}
           /\ Rest = <<>> => files[V2Target(product_id)] = response_download.body

\* a second download of a product has replaced the longer body the first
\* download had written to the same path
C10_Witness ==
    /\ IsApi
    /\ pc = "stream"
    /\ Rest = <<>>
    /\ ApiTarget \in DOMAIN files_before
    /\ files_before[ApiTarget] = <<2, 3, 4>>
    /\ files[ApiTarget] = <<1>>

\* the file the running download has open
StreamTarget == IF IsApi THEN ApiTarget ELSE V2Target(product_id)

\* while a download streams, the open file holds exactly the bytes of the
\* response body yielded so far, and the progress bar counts those bytes
StreamedPrefix ==
    pc = "stream" =>
        /\ StreamTarget \in DOMAIN files
        /\ downloaded_size <= Len(response_download.body)
        /\ files[StreamTarget] =
               SubSeq(response_download.body, 1, downloaded_size)
        /\ progress = Len(files[StreamTarget])

\* a step that ends a download before its body is exhausted: the call fails
\* with the download error, prints no success line, and the filesystem,
\* the partly written file included, stays as it is
InterruptedKeepsPrefix ==
    (pc = "stream" /\ pc' = "idle" /\ Rest # <<>>) =>
        /\ files' = files
        /\ printed' = Append(printed, "Failed to download product")
        /\ \A i \in 1..Len(printed') : printed'[i] # "Download complete!"

\* C11: after every chunk the file is exactly the prefix of the body received
\* so far and the progress counter equals the bytes written; a network
\* failure during streaming ends the call with an error and leaves the file
\* on disk holding that prefix.
C11_StreamedPrefixKept ==
    []StreamedPrefix /\ [][InterruptedKeepsPrefix]_vars

\* execute has returned after the connection broke between the two chunks
\* of the body <<2, 3, 4>>: the file of that product holds <<2, 3>>
C11_Witness ==
    /\ RunOver
    /\ printed # <<>>
    /\ printed[Len(printed)] = "Failed to download product"
    /\ V2Target(product_id) \in DOMAIN files
    /\ files[V2Target(product_id)] = <<2, 3>>

\* the catalog answered 200 with a value array that lists an Online product
AnsweredOnline(r) ==
    r.status = 200 /\ \E i \in 1..Len(r.value) : r.value[i].Online = TRUE

\* the ids of the stored product list
StoredIds == {product_name.val[i].Id : i \in 1..Len(product_name.val)}

\* a step changes the stored product list only as a query that was answered
\* 200 with an Online product, and then stores the whole value array
StoredListChange ==
    product_name' # product_name =>
        /\ op' = "query"
        /\ outcome' = "returned"
        /\ AnsweredOnline(catalog_response')
        /\ product_name' = Some(catalog_response'.value)

\* a query that got any other answer has returned None; one that got such an
\* answer has returned and stored the value array
QueryReturnsNoneOrStores ==
    (IsApi /\ op = "query" /\ outcome = "returned") =>
        IF AnsweredOnline(catalog_response)
        THEN /\ result = Some(catalog_response.value)
             /\ product_name = result
        ELSE result = Absent

\* download has sent a request, opened a file or got past its lookup only
\* for a product_id of the stored list; otherwise it is over with an
\* AttributeError or IndexError, no GET sent and the filesystem untouched
DownloadNeedsStoredId ==
    (IsApi /\ op = "download") =>
        LET listed == product_name.some /\ product_id \in StoredIds
        IN  /\ (gets > 0 \/ pc # "idle" \/ files # files_before
                  \/ outcome \in {"running", "returned", "RequestException"})
                   => listed
            /\ ~listed =>
                   /\ pc = "idle"
                   /\ gets = 0
                   /\ files = files_before
                   /\ printed = <<>>
                   /\ outcome = IF api_token.some /\ product_name.some
                                THEN "IndexError"
                                ELSE "AttributeError"

====
